---- MODULE Spec2Model ----
(***************************************************************************)
(* Model of MCTeams_and_Whisper.py: an interactive wrapper that downloads  *)
(* a video with ffmpeg and optionally transcribes it with whisper.         *)
(*                                                                         *)
(* Python strings are sequences of one-character strings.  Two code points *)
(* outside ASCII are named: "U0130" (LATIN CAPITAL LETTER I WITH DOT       *)
(* ABOVE) and "U0307" (COMBINING DOT ABOVE); str.lower() maps the first to *)
(* the two-character string "i" + U0307.                                   *)
(***************************************************************************)
EXTENDS Integers, Sequences, FiniteSets, TLC

VARIABLES pc, trace, mode, outdir, url, language, device_req, dev_in, model,
          url_trimmed, mp4_path, device, torch_env, smi_env, probes,
          ffmpeg_runs, whisper_runs, files, result, warnings, exit_code

vars == <<pc, trace, mode, outdir, url, language, device_req, dev_in, model,
          url_trimmed, mp4_path, device, torch_env, smi_env, probes,
          ffmpeg_runs, whisper_runs, files, result, warnings, exit_code>>

(***************************************************************************)
(* Bounds of the model.                                                    *)
(***************************************************************************)
\* longest query, in tokens, of the URLs the sanitizer is applied to
MaxTokens == 4
\* length of the run of U0130 characters offered as a query token
MaxDotted == 12
\* child processes exit with a code in 0..MaxExit
MaxExit == 2
\* modification times of the files of the output directory are 1..MaxMtime
MaxMtime == 2

(***************************************************************************)
(* Python string methods, on sequences of characters, 0-based as in Python *)
(***************************************************************************)
Upper == <<"A","B","C","D","E","F","G","H","I","J","K","L","M",
           "N","O","P","Q","R","S","T","U","V","W","X","Y","Z">>
Lowers == <<"a","b","c","d","e","f","g","h","i","j","k","l","m",
            "n","o","p","q","r","s","t","u","v","w","x","y","z">>
Digits == {"0","1","2","3","4","5","6","7","8","9"}
Letters == {Upper[i] : i \in 1..26} \cup {Lowers[i] : i \in 1..26}

SetMin(S) == CHOOSE x \in S : \A y \in S : x <= y
SetMax(S) == CHOOSE x \in S : \A y \in S : x >= y

\* str.lower() of one character: a sequence, since it may change the length
LowerChar(c) ==
    IF \E i \in 1..26 : Upper[i] = c
    THEN <<Lowers[CHOOSE i \in 1..26 : Upper[i] = c]>>
    ELSE IF c = "U0130" THEN <<"i", "U0307">>
    ELSE <<c>>

RECURSIVE lower(_)
lower(s) == IF s = <<>> THEN <<>> ELSE LowerChar(Head(s)) \o lower(Tail(s))

\* s.find(sub): the lowest 0-based index where sub occurs in s, or -1
find(s, sub) ==
    LET hits == {i \in 0..(Len(s) - Len(sub)) :
                    SubSeq(s, i + 1, i + Len(sub)) = sub}
    IN  IF hits = {} THEN -1 ELSE SetMin(hits)

\* s.rfind(sub, start, end): the highest index in s[start:end], or -1
rfind(s, sub, start, end) ==
    LET stop == IF end < Len(s) THEN end ELSE Len(s)
        hits == {i \in start..(stop - Len(sub)) :
                    SubSeq(s, i + 1, i + Len(sub)) = sub}
    IN  IF hits = {} THEN -1 ELSE SetMax(hits)

\* s.rstrip(chars)
RECURSIVE rstrip(_, _)
rstrip(s, chars) ==
    IF s # <<>> /\ s[Len(s)] \in chars
    THEN rstrip(SubSeq(s, 1, Len(s) - 1), chars)
    ELSE s

RECURSIVE lstrip(_, _)
lstrip(s, chars) ==
    IF s # <<>> /\ Head(s) \in chars THEN lstrip(Tail(s), chars) ELSE s

Whitespace == {" "}

\* s.strip()
strip(s) == rstrip(lstrip(s, Whitespace), Whitespace)

startswith(s, p) == Len(p) <= Len(s) /\ SubSeq(s, 1, Len(p)) = p
endswith(s, p) ==
    Len(p) <= Len(s) /\ SubSeq(s, Len(s) - Len(p) + 1, Len(s)) = p

\* s.replace(old, new), old not empty: every occurrence, left to right
RECURSIVE replace(_, _, _)
replace(s, old, new) ==
    IF s = <<>> THEN <<>>
    ELSE IF startswith(s, old)
         THEN new \o replace(SubSeq(s, Len(old) + 1, Len(s)), old, new)
         ELSE <<Head(s)>> \o replace(Tail(s), old, new)

(***************************************************************************)
(* urllib.parse.urlsplit and urlunsplit                                    *)
(***************************************************************************)
SchemeChars == Letters \cup Digits \cup {"+", "-", "."}

\* the schemes of urllib.parse.uses_netloc that the model's URLs use
UsesNetloc == {<<"h","t","t","p">>, <<"h","t","t","p","s">>}

\* the 0-based index of the first character of s that is in chars, or Len(s)
FirstOf(s, chars) ==
    LET hits == {i \in 0..(Len(s) - 1) : s[i + 1] \in chars}
    IN  IF hits = {} THEN Len(s) ELSE SetMin(hits)

urlsplit(u) ==
    LET i       == find(u, <<":">>)
        hasSch  == /\ i > 0
                   /\ u[1] \in Letters
                   /\ \A k \in 1..i : u[k] \in SchemeChars
        scheme  == IF hasSch THEN lower(SubSeq(u, 1, i)) ELSE <<>>
        u1      == IF hasSch THEN SubSeq(u, i + 2, Len(u)) ELSE u
        hasNet  == startswith(u1, <<"/", "/">>)
        afterSl == SubSeq(u1, 3, Len(u1))
        delim   == FirstOf(afterSl, {"/", "?", "#"})
        netloc  == IF hasNet THEN SubSeq(afterSl, 1, delim) ELSE <<>>
        u2      == IF hasNet THEN SubSeq(afterSl, delim + 1, Len(afterSl)) ELSE u1
        h       == find(u2, <<"#">>)
        fragment == IF h >= 0 THEN SubSeq(u2, h + 2, Len(u2)) ELSE <<>>
        u3      == IF h >= 0 THEN SubSeq(u2, 1, h) ELSE u2
        q       == find(u3, <<"?">>)
        query   == IF q >= 0 THEN SubSeq(u3, q + 2, Len(u3)) ELSE <<>>
        path    == IF q >= 0 THEN SubSeq(u3, 1, q) ELSE u3
    IN  [scheme |-> scheme, netloc |-> netloc, path |-> path,
         query |-> query, fragment |-> fragment]

urlunsplit(scheme, netloc, path, query, fragment) ==
    LET slashed == IF path # <<>> /\ Head(path) # "/" THEN <<"/">> \o path
                   ELSE path
        u1 == IF \/ netloc # <<>>
                 \/ /\ scheme # <<>>
                    /\ scheme \in UsesNetloc
                    /\ ~startswith(path, <<"/", "/">>)
              THEN <<"/", "/">> \o netloc \o slashed
              ELSE path
        u2 == IF scheme # <<>> THEN scheme \o <<":">> \o u1 ELSE u1
        u3 == IF query # <<>> THEN u2 \o <<"?">> \o query ELSE u2
    IN  IF fragment # <<>> THEN u3 \o <<"#">> \o fragment ELSE u3

(***************************************************************************)
(* trim_after_altmanifest                                                  *)
(***************************************************************************)
\* the literal "altmanifest" of q_lower.find("altmanifest")
Target == <<"a","l","t","m","a","n","i","f","e","s","t">>

\* a variant that rebuilds the URL from its parts even when nothing is cut
trim_always_rebuild(u) ==
    LET parts == urlsplit(u)
        q     == parts.query
        pos   == find(lower(q), Target)
        amp   == rfind(q, <<"&">>, 0, pos)
        new_query == IF pos = -1 THEN q
                     ELSE IF amp = -1 THEN <<>>
                     ELSE rstrip(SubSeq(q, 1, amp), {"&"})
    IN  urlunsplit(parts.scheme, parts.netloc, parts.path, new_query,
                   parts.fragment)

trim_after_altmanifest(u) ==
    LET parts == urlsplit(u)
        q     == parts.query
        q_lower == lower(q)
        pos   == find(q_lower, Target)
        amp   == rfind(q, <<"&">>, 0, pos)
        new_query == IF amp = -1 THEN <<>>
                     ELSE rstrip(SubSeq(q, 1, amp), {"&"})
    IN  IF q = <<>> THEN u
        ELSE IF pos = -1 THEN u
        ELSE urlunsplit(parts.scheme, parts.netloc, parts.path, new_query,
                        parts.fragment)

\* the message trim_after_altmanifest prints
trim_message(u) ==
    LET q == urlsplit(u).query
    IN  IF q = <<>> \/ find(lower(q), Target) = -1
        THEN "info:no-altmanifest" ELSE "info:truncated"

(***************************************************************************)
(* Literals of the program                                                 *)
(***************************************************************************)
CUDA == <<"c","u","d","a">>
CPU == <<"c","p","u">>
EN == <<"e","n">>
AUTO == <<"a","u","t","o">>
DotEn == <<".","e","n">>
DotTxt == <<".","t","x","t">>
default_language == EN
default_device == CUDA
default_model == <<"m","e","d","i","u","m",".","e","n">>
default_dir == <<"t","r","a","n","s","c","r","i","p","t","s">>
basename == <<"v","i","d","e","o">>

\* input() raising EOFError: every prompt then takes the empty answer
EOF == <<"<EOF>">>
input(ans) == IF ans = EOF THEN <<>> ELSE strip(ans)

\* `a or b` on strings
OrElse(a, b) == IF a # <<>> THEN a ELSE b

\* os.path.join(outdir, name)
join(dir, name) == <<dir, name>>

\* the exit status of sys.exit(n): the low eight bits of n
ExitStatus(n) == n % 256

(***************************************************************************)
(* What the user may type at each prompt                                   *)
(***************************************************************************)
ModeAnswers == {<<>>, <<"1">>, <<"2">>, <<" ", "1", " ">>, <<"x">>, EOF}
OutdirAnswers == {<<>>, <<"o","u","t">>}
UrlAnswers ==
    {<<>>, <<" ">>, EOF,
     <<"h","t","t","p","s",":","/","/","h","/","v">>,
     <<" ","h","t","t","p","s",":","/","/","h","/","v","?","a","=","1","&",
       "a","l","t","M","a","n","i","f","e","s","t","=","x","&","b","=","2">>,
     <<"h","t","t","p","s",":","/","/","h","/","v","?",
       "A","L","T","M","A","N","I","F","E","S","T","=","x">>}
LanguageAnswers == {<<>>, <<"E","N">>, <<"i","t">>, <<"A","u","t","o">>, EOF}
DeviceAnswers ==
    {<<>>, <<"c","p","u">>, <<"C","P","U">>, <<" ","C","u","d","a">>,
     <<"t","p","u">>, EOF}

(***************************************************************************)
(* State machine of main()                                                 *)
(***************************************************************************)
NoDir == <<>>
NoString == <<>>

Init ==
    /\ pc = "ensure_ffmpeg"
    /\ trace = <<>>
    /\ mode = "unset"
    /\ outdir = NoString
    /\ url = NoString
    /\ language = NoString
    /\ device_req = NoString
    /\ dev_in = NoString
    /\ model = NoString
    /\ url_trimmed = NoString
    /\ mp4_path = <<>>
    /\ device = NoString
    /\ torch_env = "unknown"
    /\ smi_env = "unknown"
    /\ probes = <<>>
    /\ ffmpeg_runs = <<>>
    /\ whisper_runs = <<>>
    /\ files = NoDir
    /\ result = NoString
    /\ warnings = {}
    /\ exit_code = 0

\* sys.exit(n), or the interpreter ending on an uncaught exception (status 1)
Exit(n) == pc' = "exit" /\ exit_code' = ExitStatus(n)

\* a variant that reports the missing command and goes on
ensure_cmd_keeps_going(cmd, here, next) ==
    /\ pc = here
    /\ \E present \in BOOLEAN :
          /\ trace' = Append(trace, cmd)
          /\ pc' = next
          /\ warnings' = IF present THEN warnings
                         ELSE warnings \cup {"error:not-in-path"}
    /\ UNCHANGED <<mode, outdir, url, language, device_req, dev_in, model,
                   url_trimmed, mp4_path, device, torch_env, smi_env, probes,
                   ffmpeg_runs, whisper_runs, files, result, exit_code>>

\* ensure_cmd_on_path(cmd, hint), with shutil.which(cmd) finding it or not
ensure_cmd_on_path(cmd, here, next) ==
    /\ pc = here
    /\ \E present \in BOOLEAN :
          /\ trace' = Append(trace, cmd)
          /\ IF present
             THEN pc' = next /\ UNCHANGED <<exit_code, warnings>>
             ELSE Exit(1) /\ warnings' = warnings \cup {"error:not-in-path"}
    /\ UNCHANGED <<mode, outdir, url, language, device_req, dev_in, model, url_trimmed,
                   mp4_path, device, torch_env, smi_env, probes,
                   ffmpeg_runs,
                   whisper_runs, files, result>>

EnsureFfmpeg == ensure_cmd_on_path("which:ffmpeg", "ensure_ffmpeg", "ensure_whisper")
EnsureWhisper == ensure_cmd_on_path("which:whisper", "ensure_whisper", "prompt_mode")

\* prompt_mode()
mode_of(choice) == IF choice = <<"1">> THEN "download" ELSE "transcribe"

PromptMode ==
    /\ pc = "prompt_mode"
    /\ \E ans \in ModeAnswers : mode' = mode_of(input(ans))
    /\ trace' = Append(trace, "prompt:mode")
    /\ pc' = "prompt_outdir"
    /\ UNCHANGED <<outdir, url, language, device_req, dev_in, model, url_trimmed,
                   mp4_path, device, torch_env, smi_env, probes,
                   ffmpeg_runs,
                   whisper_runs, files, result, warnings, exit_code>>

\* prompt_all_inputs(), up to the first input() after the directory
PromptOutdir ==
    /\ pc = "prompt_outdir"
    /\ \E ans \in OutdirAnswers : outdir' = OrElse(input(ans), default_dir)
    /\ trace' = Append(trace, "prompt:outdir")
    /\ pc' = "prompt_url"
    /\ UNCHANGED <<mode, url, language, device_req, dev_in, model, url_trimmed,
                   mp4_path, device, torch_env, smi_env, probes,
                   ffmpeg_runs,
                   whisper_runs, files, result, warnings, exit_code>>

\* prompt_all_inputs(): the URL, required
PromptUrl ==
    /\ pc = "prompt_url"
    /\ \E ans \in UrlAnswers :
          /\ url' = input(ans)
          /\ IF input(ans) = <<>>
             THEN Exit(1) /\ warnings' = warnings \cup {"error:no-url"}
             ELSE pc' = "prompt_language" /\ UNCHANGED <<exit_code, warnings>>
    /\ trace' = Append(trace, "prompt:url")
    /\ UNCHANGED <<mode, outdir, language, device_req, dev_in, model, url_trimmed,
                   mp4_path, device, torch_env, smi_env, probes,
                   ffmpeg_runs,
                   whisper_runs, files, result>>

\* prompt_all_inputs(): language = (lang_in or default_language).lower()
language_of(ans_in) == lower(OrElse(ans_in, default_language))

PromptLanguage ==
    /\ pc = "prompt_language"
    /\ \E ans \in LanguageAnswers : language' = language_of(input(ans))
    /\ trace' = Append(trace, "prompt:language")
    /\ pc' = "prompt_device"
    /\ UNCHANGED <<mode, outdir, url, device_req, dev_in, model, url_trimmed,
                   mp4_path, device, torch_env, smi_env, probes,
                   ffmpeg_runs,
                   whisper_runs, files, result, warnings, exit_code>>

\* prompt_all_inputs(): the device before the check against {"cuda","cpu"}
device_answer(ans_in) == lower(OrElse(ans_in, default_device))

device_keeps_answer(ans_in) == device_answer(ans_in)

\* prompt_all_inputs(): the device it returns
device_of(ans_in) ==
    IF device_answer(ans_in) \notin {CUDA, CPU} THEN default_device
    ELSE device_answer(ans_in)

model_always_default(lang) == default_model

\* prompt_all_inputs(): the model it returns
model_of(lang) ==
    IF (lang # EN \/ lang = AUTO) /\ endswith(default_model, DotEn)
    THEN replace(default_model, DotEn, <<>>)
    ELSE default_model

PromptDevice ==
    /\ pc = "prompt_device"
    /\ \E ans \in DeviceAnswers :
          /\ dev_in' = input(ans)
          /\ device_req' = device_of(input(ans))
          /\ warnings' = warnings
                \cup (IF device_answer(input(ans)) \notin {CUDA, CPU}
                      THEN {"warn:unrecognized-device"} ELSE {})
                \cup (IF model_of(language) # default_model
                      THEN {"info:model-switched"} ELSE {})
    /\ model' = model_of(language)
    /\ trace' = Append(trace, "prompt:device")
    /\ pc' = "make_paths"
    /\ UNCHANGED <<mode, outdir, url, language, url_trimmed, mp4_path, device,
                   torch_env, smi_env, probes,
                   ffmpeg_runs, whisper_runs, files,
                   result, exit_code>>

\* make_paths(outdir, url)
MakePaths ==
    /\ pc = "make_paths"
    /\ url_trimmed' = trim_after_altmanifest(url)
    /\ warnings' = warnings \cup {trim_message(url)}
    /\ mp4_path' = join(outdir, basename \o <<".","m","p","4">>)
    /\ trace' = Append(trace, "SANITIZE_URL")
    /\ pc' = "resolve_device"
    /\ UNCHANGED <<mode, outdir, url, language, device_req, dev_in, model, device,
                   torch_env, smi_env, probes,
                   ffmpeg_runs, whisper_runs, files,
                   result, exit_code>>

(***************************************************************************)
(* resolve_device                                                          *)
(***************************************************************************)
\* what `import torch; torch.cuda.is_available()` may do
TorchOutcomes == {"available", "unavailable", "raised"}

\* a variant that trusts the request and never falls back
resolve_device_no_fallback(dev, torch, smi) == dev

\* resolve_device(device), given the outcome of the torch query and whether
\* shutil.which("nvidia-smi") finds the executable
resolve_device(dev, torch, smi) ==
    IF dev = CUDA
    THEN IF torch = "unavailable" THEN CPU
         ELSE IF torch = "available" THEN CUDA
         ELSE IF ~smi THEN CPU
         ELSE CUDA
    ELSE CPU

ResolveDevice ==
    /\ pc = "resolve_device"
    /\ \E torch \in TorchOutcomes, smi \in BOOLEAN :
          /\ device' = resolve_device(device_req, torch, smi)
          /\ torch_env' = torch
          /\ smi_env' = IF smi THEN "present" ELSE "absent"
          /\ probes' = IF device_req # CUDA THEN <<>>
                       ELSE IF torch # "raised" THEN <<"torch">>
                       ELSE <<"torch", "nvidia-smi">>
          /\ warnings' = warnings
                \cup (IF resolve_device(device_req, torch, smi) # device_req
                      THEN {"info:device-fallback"} ELSE {})
    /\ trace' = Append(trace, "RESOLVE_DEVICE")
    /\ pc' = "run_ffmpeg"
    /\ UNCHANGED <<mode, outdir, url, language, device_req, dev_in, model,
                   url_trimmed, mp4_path, ffmpeg_runs, whisper_runs, files,
                   result, exit_code>>

(***************************************************************************)
(* The child processes                                                     *)
(***************************************************************************)
ChildCodes == 0..MaxExit

\* the status of the interpreter when an exception reaches the top level
UncaughtStatus == 1

\* a variant without the mode test: it goes on to transcribe in every mode
RunFfmpeg_no_fork ==
    /\ pc = "run_ffmpeg"
    /\ \E code \in ChildCodes :
          /\ ffmpeg_runs' = Append(ffmpeg_runs,
                [input |-> url_trimmed, output |-> mp4_path, code |-> code])
          /\ IF code # 0
             THEN /\ Exit(UncaughtStatus)
                  /\ warnings' = warnings \cup {"traceback:CalledProcessError"}
             ELSE /\ pc' = "run_whisper"
                  /\ UNCHANGED <<exit_code, warnings>>
    /\ trace' = Append(trace, "DOWNLOAD")
    /\ UNCHANGED <<mode, outdir, url, language, device_req, dev_in, model,
                   url_trimmed, mp4_path, device, torch_env, smi_env, probes,
                   whisper_runs, files, result>>

\* run_ffmpeg(url_trimmed, mp4_path) and, when it returns, the mode test of
\* main(); subprocess.run(check=True) raises on a non-zero code and main()
\* has no handler around run_ffmpeg
RunFfmpeg ==
    /\ pc = "run_ffmpeg"
    /\ \E code \in ChildCodes :
          /\ ffmpeg_runs' = Append(ffmpeg_runs,
                [input |-> url_trimmed, output |-> mp4_path, code |-> code])
          /\ \/ /\ code # 0
                /\ Exit(UncaughtStatus)
                /\ warnings' = warnings \cup {"traceback:CalledProcessError"}
             \/ /\ code = 0
                /\ mode = "download"
                /\ Exit(0)
                /\ UNCHANGED warnings
             \/ /\ code = 0
                /\ mode # "download"
                /\ pc' = "run_whisper"
                /\ UNCHANGED <<exit_code, warnings>>
    /\ trace' = Append(trace, "DOWNLOAD")
    /\ UNCHANGED <<mode, outdir, url, language, device_req, dev_in, model, url_trimmed,
                   mp4_path, device, torch_env, smi_env, probes, whisper_runs,
                   files, result>>

\* the argument list `cmd` of run_whisper
whisper_cmd(mp4, dir, mdl, lang, dev) ==
    [file |-> mp4, model |-> mdl, device |-> dev, output_format |-> "txt",
     output_dir |-> dir,
     language |-> IF lang # AUTO THEN <<"--language", lang>> ELSE <<>>]

\* the output directories the transcription child may leave behind
MainNames == {basename \o DotTxt, <<"n","o","t","e","s">> \o DotTxt}
Dirs(names) == UNION {[S -> 1..MaxMtime] : S \in SUBSET names}

\* run_whisper: the first subprocess.run, with "--verbose False"
RunWhisperVerbose ==
    /\ pc = "run_whisper"
    /\ \E code \in ChildCodes :
          /\ whisper_runs' = Append(whisper_runs,
                [cmd |-> whisper_cmd(mp4_path, outdir, model, language, device),
                 verbose |-> <<"--verbose", "False">>, code |-> code])
          /\ IF code = 0
             THEN /\ pc' = "pick_txt_output"
                  /\ files' \in Dirs(MainNames)
                  /\ UNCHANGED warnings
             ELSE /\ pc' = "run_whisper_retry"
                  /\ warnings' = warnings \cup {"warn:retry-without-verbose"}
                  /\ UNCHANGED files
    /\ trace' = Append(trace, "TRANSCRIBE")
    /\ UNCHANGED <<mode, outdir, url, language, device_req, dev_in, model, url_trimmed,
                   mp4_path, device, torch_env, smi_env, probes,
                   ffmpeg_runs,
                   result, exit_code>>

\* a variant whose failure ends the run with status 1, not e.returncode
RunWhisperRetry_status1 ==
    /\ pc = "run_whisper_retry"
    /\ \E code \in ChildCodes :
          /\ whisper_runs' = Append(whisper_runs,
                [cmd |-> whisper_cmd(mp4_path, outdir, model, language, device),
                 verbose |-> <<>>, code |-> code])
          /\ IF code = 0
             THEN /\ pc' = "pick_txt_output"
                  /\ files' \in Dirs(MainNames)
                  /\ UNCHANGED <<exit_code, warnings>>
             ELSE /\ Exit(1)
                  /\ warnings' = warnings \cup {"error:whisper-failed"}
                  /\ UNCHANGED files
    /\ trace' = Append(trace, "TRANSCRIBE")
    /\ UNCHANGED <<mode, outdir, url, language, device_req, dev_in, model,
                   url_trimmed, mp4_path, device, torch_env, smi_env, probes,
                   ffmpeg_runs, result>>

\* run_whisper: the second subprocess.run, in the except clause; its
\* CalledProcessError reaches the handler of main(), sys.exit(e.returncode)
RunWhisperRetry ==
    /\ pc = "run_whisper_retry"
    /\ \E code \in ChildCodes :
          /\ whisper_runs' = Append(whisper_runs,
                [cmd |-> whisper_cmd(mp4_path, outdir, model, language, device),
                 verbose |-> <<>>, code |-> code])
          /\ IF code = 0
             THEN /\ pc' = "pick_txt_output"
                  /\ files' \in Dirs(MainNames)
                  /\ UNCHANGED <<exit_code, warnings>>
             ELSE /\ Exit(code)
                  /\ warnings' = warnings \cup {"error:whisper-failed"}
                  /\ UNCHANGED files
    /\ trace' = Append(trace, "TRANSCRIBE")
    /\ UNCHANGED <<mode, outdir, url, language, device_req, dev_in, model, url_trimmed,
                   mp4_path, device, torch_env, smi_env, probes,
                   ffmpeg_runs,
                   result>>

(***************************************************************************)
(* pick_txt_output                                                         *)
(***************************************************************************)
\* the value None
None == <<>>

\* the .txt files of the directory
txt_files(dir) == {f \in DOMAIN dir : endswith(f, DotTxt)}

\* the candidates with the greatest modification time
newest(dir, cands) == {f \in cands : \A g \in cands : dir[g] <= dir[f]}

\* a variant that looks for the newest matching file before the exact name
pick_newest_first(dir, out, base) ==
    LET cands == {f \in txt_files(dir) : startswith(f, base)}
    IN  IF cands # {} THEN {join(out, f) : f \in newest(dir, cands)}
        ELSE IF txt_files(dir) # {}
             THEN {join(out, f) : f \in newest(dir, txt_files(dir))}
             ELSE {None}

\* pick_txt_output(outdir, basename): the values it may return; max() takes
\* the first of several newest candidates in the order of os.listdir, which
\* is arbitrary
pick_txt_output(dir, out, base) ==
    LET txt_path == base \o DotTxt
        matching == {f \in txt_files(dir) : startswith(f, base)}
        candidates == IF matching = {} THEN txt_files(dir) ELSE matching
    IN  IF txt_path \in DOMAIN dir THEN {join(out, txt_path)}
        ELSE IF candidates # {}
             THEN {join(out, f) : f \in newest(dir, candidates)}
             ELSE {None}

\* pick_txt_output, and main() returning after it
PickTxtOutput ==
    /\ pc = "pick_txt_output"
    /\ \E r \in pick_txt_output(files, outdir, basename) :
          /\ result' = r
          /\ warnings' = warnings
                \cup (IF r = None THEN {"error:no-txt-output"} ELSE {})
    /\ trace' = Append(trace, "RESOLVE_OUTPUT")
    /\ Exit(0)
    /\ UNCHANGED <<mode, outdir, url, language, device_req, dev_in, model, url_trimmed,
                   mp4_path, device, torch_env, smi_env, probes,
                   ffmpeg_runs,
                   whisper_runs, files>>

(***************************************************************************)
(* The program                                                             *)
(***************************************************************************)
Next ==
    \/ EnsureFfmpeg
    \/ EnsureWhisper
    \/ PromptMode
    \/ PromptOutdir
    \/ PromptUrl
    \/ PromptLanguage
    \/ PromptDevice
    \/ MakePaths
    \/ ResolveDevice
    \/ RunFfmpeg
    \/ RunWhisperVerbose
    \/ RunWhisperRetry
    \/ PickTxtOutput

Spec == Init /\ [][Next]_vars

(***************************************************************************)
(* The sanitizer on a family of URLs: make_paths from every state that     *)
(* prompt_all_inputs can leave, for URLs built from a few pieces            *)
(***************************************************************************)
Name == <<"a","l","t","M","a","n","i","f","e","s","t">>
DottedRun == [i \in 1..MaxDotted |-> "U0130"]
QueryTokens == {<<"&">>, <<"a","=","1">>, Name, DottedRun}
TrimHeads ==
    {<<>>,
     <<"H","T","T","P","S",":","/","/","h","/","p">>,
     <<"/","/","h","/">> \o Name,
     <<"x",":","/","p">>}
TrimFragments ==
    {<<>>, <<"#">>, <<"#","f">>, <<"#","?">> \o Name}

RECURSIVE Flatten(_)
Flatten(ss) == IF ss = <<>> THEN <<>> ELSE Head(ss) \o Flatten(Tail(ss))

TrimQueries ==
    {<<>>} \cup
    {<<"?">> \o Flatten(toks) :
        toks \in UNION {[1..n -> QueryTokens] : n \in 0..MaxTokens}}

TrimUrls ==
    {h \o q \o f : h \in TrimHeads, q \in TrimQueries, f \in TrimFragments}
        \ {<<>>}

InitTrim ==
    /\ pc = "make_paths"
    /\ trace = <<"which:ffmpeg", "which:whisper", "prompt:mode",
                 "prompt:outdir", "prompt:url", "prompt:language",
                 "prompt:device">>
    /\ mode \in {"download", "transcribe"}
    /\ outdir = default_dir
    /\ url \in TrimUrls
    /\ language = default_language
    /\ device_req = default_device
    /\ dev_in = NoString
    /\ model = default_model
    /\ url_trimmed = NoString
    /\ mp4_path = <<>>
    /\ device = NoString
    /\ torch_env = "unknown"
    /\ smi_env = "unknown"
    /\ probes = <<>>
    /\ ffmpeg_runs = <<>>
    /\ whisper_runs = <<>>
    /\ files = NoDir
    /\ result = NoString
    /\ warnings = {}
    /\ exit_code = 0

NextTrim == MakePaths

SpecTrim == InitTrim /\ [][NextTrim]_vars

(***************************************************************************)
(* Output resolution on a family of directories: pick_txt_output from the  *)
(* state a successful first transcription leaves                           *)
(***************************************************************************)
PickNames ==
    {basename \o DotTxt,
     basename \o DotEn \o DotTxt,
     basename \o <<"1">> \o DotTxt,
     <<"n","o","t","e","s">> \o DotTxt,
     <<"a">> \o DotTxt,
     basename \o <<".","s","r","t">>}

InitPick ==
    /\ pc = "pick_txt_output"
    /\ trace = <<"which:ffmpeg", "which:whisper", "prompt:mode",
                 "prompt:outdir", "prompt:url", "prompt:language",
                 "prompt:device", "SANITIZE_URL", "RESOLVE_DEVICE",
                 "DOWNLOAD", "TRANSCRIBE">>
    /\ mode = "transcribe"
    /\ outdir = default_dir
    /\ url = <<"h","t","t","p","s",":","/","/","h","/","v">>
    /\ language = default_language
    /\ device_req = CPU
    /\ dev_in = CPU
    /\ model = default_model
    /\ url_trimmed = url
    /\ mp4_path = join(outdir, basename \o <<".","m","p","4">>)
    /\ device = CPU
    /\ torch_env \in TorchOutcomes
    /\ smi_env \in {"present", "absent"}
    /\ probes = <<>>
    /\ ffmpeg_runs = <<[input |-> url_trimmed, output |-> mp4_path, code |-> 0]>>
    /\ whisper_runs =
          <<[cmd |-> whisper_cmd(mp4_path, outdir, model, language, device),
             verbose |-> <<"--verbose", "False">>, code |-> 0]>>
    /\ files \in Dirs(PickNames)
    /\ result = NoString
    /\ warnings = {"info:no-altmanifest"}
    /\ exit_code = 0

NextPick == PickTxtOutput

SpecPick == InitPick /\ [][NextPick]_vars

(***************************************************************************)
(* Vocabulary of the properties                                            *)
(***************************************************************************)
Range(f) == {f[i] : i \in DOMAIN f}
IsPrefix(a, b) == Len(a) <= Len(b) /\ SubSeq(b, 1, Len(a)) = a
Last(sq) == sq[Len(sq)]

\* the 0-based positions of q where the parameter name occurs, in any case
Occurrences(q) ==
    {i \in 0..(Len(q) - Len(Target)) :
        lower(SubSeq(q, i + 1, i + Len(Target))) = Target}

\* q cut at the '&' that precedes its first occurrence of the name: the
\* empty query when no '&' precedes it
CutBeforeParameter(q) ==
    LET first == SetMin(Occurrences(q))
        amps  == {i \in 0..(first - 1) : q[i + 1] = "&"}
    IN  IF amps = {} THEN <<>> ELSE SubSeq(q, 1, SetMax(amps))

Sanitized == "SANITIZE_URL" \in Range(trace)
Medium == <<"m","e","d","i","u","m">>
Italian == <<"i","t">>
Prompts == {"prompt:mode", "prompt:outdir", "prompt:url", "prompt:language",
            "prompt:device"}
NoChildStarted == ffmpeg_runs = <<>> /\ whisper_runs = <<>>
OutputResolved == "RESOLVE_OUTPUT" \in Range(trace)

(***************************************************************************)
(* C1: for every URL whose query contains the name altManifest, in any     *)
(* case and at any position, the sanitized URL has a query with no         *)
(* occurrence of the name, equal to the input query cut at the '&' right   *)
(* before the parameter (empty when it is the first parameter), and the    *)
(* same scheme, host, path and fragment as the input.  The two queries are *)
(* compared without their trailing '&' characters, which separate no       *)
(* parameter: the statement is the weaker for it.                          *)
(***************************************************************************)
C1_TrimRemovesParameter ==
    (Sanitized /\ Occurrences(urlsplit(url).query) # {}) =>
        LET inp == urlsplit(url)
            out == urlsplit(url_trimmed)
        IN  /\ Occurrences(out.query) = {}
            /\ rstrip(out.query, {"&"})
                  = rstrip(CutBeforeParameter(inp.query), {"&"})
            /\ out.scheme = inp.scheme
            /\ out.netloc = inp.netloc
            /\ out.path = inp.path
            /\ out.fragment = inp.fragment

(***************************************************************************)
(* C2: for every URL whose query does not contain the name (no query at    *)
(* all, or the name only in the path or the fragment), the sanitizer       *)
(* returns the URL unchanged.                                              *)
(***************************************************************************)
C2_TrimIdentityWithoutParameter ==
    (Sanitized /\ Occurrences(urlsplit(url).query) = {}) => url_trimmed = url

C2_Witness ==
    /\ Sanitized
    /\ Occurrences(urlsplit(url).query) = {}
    /\ Occurrences(url) # {}
    /\ urlsplit(url).query # <<>>
    /\ url_trimmed = url

(***************************************************************************)
(* C3: when ffmpeg exits with a non-zero code the run ends there: whisper  *)
(* is never started, the output is never resolved, and the exit code of    *)
(* the program is the exit code of ffmpeg.                                 *)
(***************************************************************************)
C3_DownloadFailurePropagates ==
    (ffmpeg_runs # <<>> /\ ffmpeg_runs[1].code # 0) =>
        /\ pc = "exit"
        /\ whisper_runs = <<>>
        /\ ~OutputResolved
        /\ exit_code = ffmpeg_runs[1].code

(***************************************************************************)
(* C4: the steps of a run occur in the order SANITIZE_URL, RESOLVE_DEVICE, *)
(* DOWNLOAD, then one fork: in download-only mode the program exits with   *)
(* code 0 right after a successful download and neither whisper nor the    *)
(* output resolution runs; in transcribe mode whisper starts only after a  *)
(* successful download and the output is resolved only after a successful  *)
(* transcription.  ffmpeg always receives the sanitized URL, never the     *)
(* raw one.                                                                *)
(***************************************************************************)
StepsBeforeFork ==
    <<"which:ffmpeg", "which:whisper", "prompt:mode", "prompt:outdir",
      "prompt:url", "prompt:language", "prompt:device", "SANITIZE_URL",
      "RESOLVE_DEVICE", "DOWNLOAD">>

C4_StepOrder ==
    /\ \/ IsPrefix(trace, StepsBeforeFork \o <<"TRANSCRIBE", "RESOLVE_OUTPUT">>)
       \/ IsPrefix(trace, StepsBeforeFork
                            \o <<"TRANSCRIBE", "TRANSCRIBE", "RESOLVE_OUTPUT">>)
    /\ Len(ffmpeg_runs) <= 1
    /\ (mode = "download" /\ ffmpeg_runs # <<>> /\ ffmpeg_runs[1].code = 0) =>
          pc = "exit" /\ exit_code = 0 /\ Last(trace) = "DOWNLOAD"
    /\ mode = "download" => whisper_runs = <<>> /\ ~OutputResolved
    /\ whisper_runs # <<>> =>
          mode = "transcribe" /\ ffmpeg_runs # <<>> /\ ffmpeg_runs[1].code = 0
    /\ OutputResolved => whisper_runs # <<>> /\ Last(whisper_runs).code = 0
    /\ \A i \in DOMAIN ffmpeg_runs :
          /\ Sanitized
          /\ ffmpeg_runs[i].input = url_trimmed
          /\ Occurrences(urlsplit(url).query) # {} => ffmpeg_runs[i].input # url

C4_Witness ==
    /\ pc = "exit"
    /\ OutputResolved
    /\ Len(whisper_runs) = 2
    /\ ffmpeg_runs[1].input # url

(***************************************************************************)
(* C5: whisper is started at most twice: first with "--verbose False", and *)
(* a second time, with the same arguments without those flags, exactly     *)
(* when the first attempt exited non-zero.  If the retry exits non-zero    *)
(* too the program exits with that code and the output is not resolved; if *)
(* either attempt succeeds the output is resolved.                         *)
(***************************************************************************)
C5_WhisperRetry ==
    /\ Len(whisper_runs) <= 2
    /\ whisper_runs # <<>> =>
          whisper_runs[1].verbose = <<"--verbose", "False">>
    /\ Len(whisper_runs) = 2 =>
          /\ whisper_runs[1].code # 0
          /\ whisper_runs[2].verbose = <<>>
          /\ whisper_runs[2].cmd = whisper_runs[1].cmd
    /\ (pc = "exit" /\ whisper_runs # <<>>) =>
          /\ Len(whisper_runs) = 2 <=> whisper_runs[1].code # 0
          /\ Last(whisper_runs).code # 0 =>
                exit_code = Last(whisper_runs).code /\ ~OutputResolved
          /\ Last(whisper_runs).code = 0 => OutputResolved

C5_Witness ==
    /\ pc = "exit"
    /\ Len(whisper_runs) = 2
    /\ whisper_runs[2].code = MaxExit
    /\ exit_code = MaxExit

(***************************************************************************)
(* C6: the model is "medium" whenever the language, after defaulting an    *)
(* empty answer to "en" and lower-casing, is not "en" or is "auto"; it     *)
(* stays "medium.en" exactly when the language is "en".  Language "it"     *)
(* gives "medium".                                                         *)
(***************************************************************************)
C6_ModelFollowsLanguage ==
    model # NoString =>
        /\ (language # EN \/ language = AUTO) => model = Medium
        /\ model = default_model <=> language = EN
        /\ language = Italian => model = Medium

C6_Witness == language = Italian /\ model = Medium

(***************************************************************************)
(* C7: pick_txt_output returns <outdir>/<basename>.txt when it exists,     *)
(* whatever other, possibly newer, .txt files there are; otherwise the     *)
(* newest .txt file whose name starts with the basename; otherwise the     *)
(* newest .txt file of the directory; and with no .txt file it warns and   *)
(* returns None, the run still ending with code 0.                         *)
(***************************************************************************)
C7_PickPrefersExactName ==
    (pc = "exit" /\ OutputResolved) =>
        LET exact == basename \o DotTxt
            txts  == {f \in DOMAIN files : endswith(f, DotTxt)}
            named == {f \in txts : startswith(f, basename)}
        IN  /\ exit_code = 0
            /\ exact \in DOMAIN files => result = join(outdir, exact)
            /\ (exact \notin DOMAIN files /\ named # {}) =>
                  \E f \in named : /\ result = join(outdir, f)
                                   /\ \A g \in named : files[g] <= files[f]
            /\ (named = {} /\ txts # {}) =>
                  \E f \in txts : /\ result = join(outdir, f)
                                  /\ \A g \in txts : files[g] <= files[f]
            /\ txts = {} =>
                  result = None /\ "error:no-txt-output" \in warnings

C7_Witness ==
    /\ pc = "exit"
    /\ OutputResolved
    /\ basename \o DotTxt \in DOMAIN files
    /\ basename \o DotEn \o DotTxt \in DOMAIN files
    /\ files[basename \o DotEn \o DotTxt] > files[basename \o DotTxt]
    /\ result = join(outdir, basename \o DotTxt)

(***************************************************************************)
(* C8: when ffmpeg or whisper is missing from the path, or the URL entered *)
(* is empty, the run ends with exit code 1 and no child process is ever    *)
(* started; a missing executable ends the run before any prompt, an empty  *)
(* URL before the language and device prompts.                             *)
(***************************************************************************)
C8_MissingPrerequisiteIsFatal ==
    /\ "error:not-in-path" \in warnings =>
          /\ pc = "exit" /\ exit_code = 1
          /\ NoChildStarted
          /\ Range(trace) \cap Prompts = {}
    /\ (trace # <<>> /\ Last(trace) = "prompt:url" /\ url = <<>>) =>
          /\ pc = "exit" /\ exit_code = 1
          /\ NoChildStarted
          /\ Range(trace) \cap {"prompt:language", "prompt:device"} = {}

C8_Witness ==
    /\ "error:not-in-path" \in warnings
    /\ trace = <<"which:ffmpeg", "which:whisper">>
    /\ pc = "exit"

(***************************************************************************)
(* C9: when "cuda" is requested resolve_device queries the library, falls  *)
(* back to looking for nvidia-smi, and returns "cpu" only if neither       *)
(* confirms a GPU, "cuda" otherwise; when "cpu" is requested it returns    *)
(* "cpu" without probing.  whisper gets the resolved device, which is      *)
(* "cuda" only if "cuda" was requested.                                    *)
(***************************************************************************)
DeviceReachesWhisper ==
    /\ \A i \in DOMAIN whisper_runs : whisper_runs[i].cmd.device = device
    /\ device = CUDA => device_req = CUDA

C9_CpuOnlyIfNeitherConfirms ==
    device # NoString =>
        /\ device_req = CUDA =>
              (device = CPU <=>
                  (torch_env # "available" /\ smi_env # "present"))
        /\ device_req = CPU => device = CPU /\ probes = <<>>
        /\ DeviceReachesWhisper

\* C9 as the code has it: the answer of the library, when it gives one, is
\* final; nvidia-smi is looked for only when the library query raises
C9_LibraryAnswerIsFinal ==
    device # NoString =>
        /\ (device_req = CUDA /\ torch_env = "available") =>
              device = CUDA /\ probes = <<"torch">>
        /\ (device_req = CUDA /\ torch_env = "unavailable") =>
              device = CPU /\ probes = <<"torch">>
        /\ (device_req = CUDA /\ torch_env = "raised") =>
              /\ probes = <<"torch", "nvidia-smi">>
              /\ device = IF smi_env = "present" THEN CUDA ELSE CPU
        /\ device_req = CPU => device = CPU /\ probes = <<>>
        /\ DeviceReachesWhisper

C9_Witness ==
    /\ device_req = CUDA
    /\ torch_env = "unavailable"
    /\ smi_env = "present"
    /\ device = CPU
    /\ whisper_runs # <<>>

(***************************************************************************)
(* C10: the device prompt_all_inputs returns is "cuda" or "cpu": "cuda"    *)
(* for an empty answer, the answer itself when it is "cuda" or "cpu" in    *)
(* any letter case, and "cuda" with a warning, the run going on, for any   *)
(* other answer such as "tpu".                                             *)
(***************************************************************************)
C10_DeviceDefaults ==
    "prompt:device" \in Range(trace) =>
        /\ device_req \in {CUDA, CPU}
        /\ dev_in = <<>> => device_req = CUDA
        /\ lower(dev_in) \in {CUDA, CPU} => device_req = lower(dev_in)
        /\ (dev_in # <<>> /\ lower(dev_in) \notin {CUDA, CPU}) =>
              /\ device_req = CUDA
              /\ "warn:unrecognized-device" \in warnings
              /\ pc = "exit" => Sanitized

C10_Witness ==
    /\ dev_in = <<"t","p","u">>
    /\ device_req = CUDA
    /\ "warn:unrecognized-device" \in warnings
    /\ Sanitized

====
